---- MODULE Spec2Model ----
(***************************************************************************)
(* pickley: install-state and lock coordination.                           *)
(*                                                                         *)
(* Part 1  PingLock (src/pickley/__init__.py): the .work/.ping lock, one   *)
(*         step per filesystem call of __enter__ / __exit__, several       *)
(*         processes sharing one work folder.                              *)
(***************************************************************************)
EXTENDS Integers, Sequences, FiniteSets, TLC

(* ---------------------------------------------------------------------- *)
(* Bounds                                                                  *)
(* ---------------------------------------------------------------------- *)
MaxTime == 3
NumProcs == 2

Procs == 1..NumProcs

(* PingLock(folder, seconds): the validity window, in clock ticks *)
PingSeconds == 1

NoFile == -1

VARIABLES
    now,        \* time.time(), in ticks
    dryrun,     \* system.dryrun
    work,       \* the .work folder: [exists, ping (mtime or NoFile), other]
    pcP,        \* position of each process in  with PingLock(...): ...
    att,        \* what each process' is_young() call found the marker to be
    exc,        \* the exception a process' __enter__ raised, if any
    enteredAt   \* when a process' __enter__ returned (its touch), NoFile before

pingVars == <<work, pcP, att, exc, enteredAt>>

VARIABLES
    pkg,        \* the package's folder <meta>/<name>: state files, artifacts, lock marker
    base,       \* the delivered targets at the base path, per entry-point name
    pcS,        \* position of each competing process in  with SoftLock(...): ...
    sAt         \* when a competing process acquired (or refreshed) the install mutex

diskVars == <<pkg, base>>
softVars == <<pcS, sAt>>

VARIABLES
    cfg,        \* configuration: channel, pinned version, delivery
    ipc,        \* position of the installing process in Packager.install
    runs,       \* number of install runs started
    force,      \* install(force=...)
    desired,    \* Packager.desired
    current,    \* Packager.current
    latest,     \* Packager.latest
    ent,        \* Packager._entry_points (the cache behind entry_points)
    prev,       \* internal_install: prev_entry_points
    removed,    \* internal_install: removed
    log,        \* what this run did, in order
    diag        \* the diagnostic of runez.abort, if the run aborted

VARIABLES
    before      \* the folder the last retention pass found (None: no pass yet)

VARIABLES
    passes      \* the retention passes that ran on the folder: none, a first, a second

VARIABLES
    fs,         \* a folder, a source file and the target path inside the folder
    call,       \* the system.* helper being called on the target, and its position
    seen,       \* what a concurrent reader of the target path last found there
    pre         \* fs when the helper was called

fileVars == <<fs, call, seen, pre>>

instVars == <<cfg, ipc, runs, force, desired, current, latest, ent, prev, removed, log, diag>>

vars == <<now, dryrun, before, passes, fileVars, pingVars, diskVars, softVars, instVars>>

(* ---------------------------------------------------------------------- *)
(* system.* filesystem helpers, on the work folder                         *)
(* ---------------------------------------------------------------------- *)
NoFolder == [exists |-> FALSE, ping |-> NoFile, other |-> FALSE]

PingPath == "folder/.ping"

\* system.delete_file(path) applied to the work folder
delete_file(w) ==
    IF ~w.exists THEN w
    ELSE IF dryrun THEN w
    ELSE NoFolder

\* system.touch(path) applied to <folder>/.ping: ensure_folder, open "at", utime
touch(w) ==
    IF dryrun THEN w
    ELSE [w EXCEPT !.exists = TRUE, !.ping = now]

\* is_young with the age test dropped: any existing marker counts as young
is_young_noage(w, seconds) ==
    w.exists /\ w.ping # NoFile

\* PingLock.is_young(): .ping exists and mtime >= time.time() - seconds
is_young(w, seconds) ==
    IF ~(w.exists /\ w.ping # NoFile) THEN FALSE
    ELSE w.ping >= now - seconds

\* The marker as an observer classifies it, by age against the window
MarkerAge(w) == now - w.ping

MarkerClass(w) ==
    IF ~(w.exists /\ w.ping # NoFile) THEN "absent"
    ELSE IF MarkerAge(w) < PingSeconds THEN "young"
    ELSE IF MarkerAge(w) = PingSeconds THEN "edge"
    ELSE "stale"

(* ---------------------------------------------------------------------- *)
(* PingLock.__enter__ and __exit__, one action per filesystem call         *)
(* ---------------------------------------------------------------------- *)
\* __enter__ that refreshes the marker it found before raising
PingLock_enter_check_refreshing(p) ==
    /\ pcP[p] = "idle"
    /\ att' = [att EXCEPT ![p] = MarkerClass(work)]
    /\ IF is_young(work, PingSeconds)
       THEN /\ pcP' = [pcP EXCEPT ![p] = "raised"]
            /\ exc' = [exc EXCEPT ![p] = [type |-> "PingLockException", ping_path |-> PingPath]]
            /\ work' = touch(work)
       ELSE /\ pcP' = [pcP EXCEPT ![p] = "clear"]
            /\ exc' = exc
            /\ work' = work
    /\ UNCHANGED <<now, dryrun, before, passes, fileVars, enteredAt, diskVars, softVars, instVars>>

\* if self.is_young(): raise PingLockException(self.ping)
PingLock_enter_check(p) ==
    /\ pcP[p] = "idle"
    /\ att' = [att EXCEPT ![p] = MarkerClass(work)]
    /\ IF is_young(work, PingSeconds)
       THEN /\ pcP' = [pcP EXCEPT ![p] = "raised"]
            /\ exc' = [exc EXCEPT ![p] = [type |-> "PingLockException", ping_path |-> PingPath]]
       ELSE /\ pcP' = [pcP EXCEPT ![p] = "clear"]
            /\ exc' = exc
    /\ UNCHANGED <<now, dryrun, before, passes, fileVars, work, enteredAt, diskVars, softVars, instVars>>

\* system.delete_file(self.folder)
PingLock_enter_delete(p) ==
    /\ pcP[p] = "clear"
    /\ work' = delete_file(work)
    /\ pcP' = [pcP EXCEPT ![p] = "deleted"]
    /\ UNCHANGED <<now, dryrun, before, passes, fileVars, att, exc, enteredAt, diskVars, softVars, instVars>>

\* self.touch(); return self
PingLock_enter_touch(p) ==
    /\ pcP[p] = "deleted"
    /\ work' = touch(work)
    /\ pcP' = [pcP EXCEPT ![p] = "held"]
    /\ enteredAt' = [enteredAt EXCEPT ![p] = now]
    /\ UNCHANGED <<now, dryrun, before, passes, fileVars, att, exc, diskVars, softVars, instVars>>

\* the body of the with block: the holder puts files into the work folder
PingLock_body(p) ==
    /\ pcP[p] = "held"
    /\ ~(work.exists /\ work.other)
    /\ work' = [work EXCEPT !.exists = TRUE, !.other = TRUE]
    /\ UNCHANGED <<now, dryrun, before, passes, fileVars, pcP, att, exc, enteredAt, diskVars, softVars, instVars>>

\* __exit__ that leaves the work folder in place
PingLock_exit_keep(p) ==
    /\ pcP[p] = "held"
    /\ work' = work
    /\ \E raisedInBody \in BOOLEAN :
          pcP' = [pcP EXCEPT ![p] = IF raisedInBody THEN "propagated" ELSE "done"]
    /\ UNCHANGED <<now, dryrun, before, passes, fileVars, att, exc, enteredAt, diskVars, softVars, instVars>>

\* __exit__(self, *_): system.delete_file(self.folder); the body ended normally
\* (raisedInBody = FALSE) or through an exception, which __exit__ lets through
PingLock_exit(p) ==
    /\ pcP[p] = "held"
    /\ work' = delete_file(work)
    /\ \E raisedInBody \in BOOLEAN :
          pcP' = [pcP EXCEPT ![p] = IF raisedInBody THEN "propagated" ELSE "done"]
    /\ UNCHANGED <<now, dryrun, before, passes, fileVars, att, exc, enteredAt, diskVars, softVars, instVars>>

\* the process is killed inside __enter__ or inside the with block: no __exit__
PingLock_die(p) ==
    /\ pcP[p] \in {"clear", "deleted", "held"}
    /\ pcP' = [pcP EXCEPT ![p] = IF pcP[p] = "held" THEN "dead_held" ELSE "dead"]
    /\ UNCHANGED <<now, dryrun, before, passes, fileVars, work, att, exc, enteredAt, diskVars, softVars, instVars>>

\* The clock. Its unit is coarse: an install run of the modelled installer
\* (Part 4) takes less than one unit, the locks of Parts 1 and 3 are held across
\* any number of units.
Tick ==
    /\ now < MaxTime
    /\ ipc = "idle"
    /\ now' = now + 1
    /\ UNCHANGED <<dryrun, before, passes, fileVars, pingVars, diskVars, softVars, instVars>>

(* ---------------------------------------------------------------------- *)
(* Part 2  The package on disk (src/pickley/package.py)                    *)
(* Names and file names are sequences of characters, so that               *)
(* text.startswith(name) is a prefix test.                                 *)
(* ---------------------------------------------------------------------- *)
PkgName == <<"t">>
EPNames == {<<"t">>, <<"t", "x">>}
Versions == {"1", "2"}

\* A Python None where a name is expected (the None key of cleanup's prefixes)
NoneKey == <<"None">>

\* Optional values: None is the empty set, a value x is {x}
None == {}
Some(x) == {x}
Get(o) == CHOOSE x \in o : TRUE

\* settings: install_timeout (lock validity and cleanup cutoff), version_check_seconds
InstallTimeout == 1
VersionCheckSeconds == 1

\* template "{name}-{version}"
ArtName(name, version) == name \o <<"-", version>>

\* <meta>/<name> with nothing in it (also: the folder does not exist)
EmptyPkg ==
    [cur |-> None, latest |-> None, eps |-> None, rem |-> None,
     arts |-> {}, lock |-> NoFile, ping |-> NoFile]

NoTarget == [src |-> <<>>, via |-> ""]

NoDiag == [msg |-> "", name |-> <<>>, problem |-> ""]

(* ----------------------------- find_prefix ----------------------------- *)
IsPrefix(name, text) ==
    Len(name) <= Len(text) /\ SubSeq(text, 1, Len(name)) = name

\* a search that settles for the shortest prefix
find_prefix_shortest(prefixes, text) ==
    IF text = <<>> \/ prefixes = {} THEN NoneKey
    ELSE LET found == {n \in prefixes : n # NoneKey /\ n # <<>> /\ IsPrefix(n, text)}
         IN  IF found = {} THEN NoneKey
             ELSE CHOOSE n \in found : \A m \in found : Len(n) <= Len(m)

\* find_prefix(prefixes, text): the longest non-empty name text starts with
find_prefix(prefixes, text) ==
    IF text = <<>> \/ prefixes = {} THEN NoneKey
    ELSE LET found == {n \in prefixes : n # NoneKey /\ n # <<>> /\ IsPrefix(n, text)}
         IN  IF found = {} THEN NoneKey
             ELSE CHOOSE n \in found : \A m \in found : Len(m) <= Len(n)

(* ----------------------------- VersionMeta ----------------------------- *)
\* class defaults; timestamp 0 and problem "" stand for None
NewMeta ==
    [version |-> "", channel |-> "", source |-> "",
     packager |-> "", delivery |-> "", python |-> "", pickley |-> "",
     timestamp |-> 0, problem |-> ""]

LatestChannel == "latest"
PickleyVersion == "0.0.0"
TargetPython == "python"

\* ImplementationMap.resolved_name(package_name): the configured value, or None
\* ("" stands for None and for a definition without a value)
resolved_name(value) ==
    IF value = "" THEN "" ELSE value

\* resolved_name(package_name, default=...): configuration first, then the default
resolved_name_default(value, default) ==
    IF resolved_name(value) # "" THEN resolved_name(value) ELSE default

\* VersionMeta._update_dynamic_fields; suffix is "current", "latest" or "" (desired)
update_dynamic_fields(m, suffix) ==
    LET d == IF suffix # LatestChannel
             THEN [m EXCEPT !.packager = resolved_name(cfg.packager),
                            !.delivery = resolved_name(cfg.delivery),
                            !.python = TargetPython]
             ELSE m
    IN  [d EXCEPT !.pickley = PickleyVersion, !.timestamp = now]

\* a validity test that accepts every record
valid_always(m) == TRUE

\* VersionMeta.valid
valid(m) == m.version # "" /\ m.problem = ""

\* an equivalence that looks at the version alone
equivalent_version_only(m, other) == m.version = other.version

\* an equivalence that also compares the channel
equivalent_with_channel(m, other) ==
    /\ m.version = other.version
    /\ m.packager = other.packager
    /\ m.delivery = other.delivery
    /\ m.channel = other.channel

\* an equivalence that also looks at when the records were determined
equivalent_with_timestamp(m, other) ==
    /\ m.version = other.version
    /\ m.packager = other.packager
    /\ m.delivery = other.delivery
    /\ m.timestamp = other.timestamp

\* VersionMeta.equivalent(other), other not None
equivalent(m, other) ==
    IF m.version # other.version THEN FALSE
    ELSE IF m.packager # other.packager THEN FALSE
    ELSE IF m.delivery # other.delivery THEN FALSE
    ELSE TRUE

\* VersionMeta.equivalent(other), other a record (Some) or None
equivalent_or_none(m, other) ==
    IF other = None THEN FALSE ELSE equivalent(m, Get(other))

\* VersionMeta.set_version
set_version(m, version, channel, source, suffix) ==
    update_dynamic_fields(
        [m EXCEPT !.version = version, !.channel = channel, !.source = source], suffix)

\* VersionMeta.set_from
set_from(m, other, suffix) ==
    update_dynamic_fields(
        [m EXCEPT !.problem = other.problem, !.version = other.version,
                  !.channel = other.channel, !.source = other.source], suffix)

\* an invalidation that leaves the version
invalidate_problem_only(m, problem) == [m EXCEPT !.problem = problem]

\* VersionMeta.invalidate
invalidate(m, problem) ==
    [m EXCEPT !.problem = problem, !.version = ""]

\* a staleness test that still accepts a record at the end of the window
still_valid_inclusive(m) ==
    IF ~valid(m) \/ m.timestamp = 0 THEN valid(m)
    ELSE (now - m.timestamp) <= VersionCheckSeconds

\* VersionMeta.still_valid
still_valid(m) ==
    IF ~valid(m) \/ m.timestamp = 0 THEN valid(m)
    ELSE (now - m.timestamp) < VersionCheckSeconds

\* JsonSerializable.load: the stored fields, or the class defaults when there is
\* no file; fields starting with '_' (the problem) are not stored and stay
load(m, file) ==
    IF file = None THEN [NewMeta EXCEPT !.problem = m.problem]
    ELSE [Get(file) EXCEPT !.problem = m.problem]

\* JsonSerializable.save: every field but those starting with '_'
save(m) == Some([m EXCEPT !.problem = ""])

(* --------------------------- entry points ------------------------------ *)
\* Packager.entry_points: the cache, else the stored .entry-points.json, else {}
entry_points(cache, k) ==
    IF cache = None
    THEN IF k.eps = None THEN (IF dryrun THEN {PkgName} ELSE {}) ELSE Get(k.eps)
    ELSE Get(cache)

\* what reading entry_points leaves in the cache
entry_points_cache(cache, k) ==
    IF cache = None THEN k.eps ELSE cache

(* ------------------------------ cleanup -------------------------------- *)
Ord(c) ==
    CASE c = "-" -> 45
      [] c = "." -> 46
      [] c = "1" -> 49
      [] c = "2" -> 50
      [] c = "o" -> 111
      [] c = "t" -> 116
      [] c = "x" -> 120
      [] OTHER -> 0

RECURSIVE StrLess(_, _)
\* a < b for Python strings
StrLess(a, b) ==
    IF b = <<>> THEN FALSE
    ELSE IF a = <<>> THEN TRUE
    ELSE IF Ord(Head(a)) # Ord(Head(b)) THEN Ord(Head(a)) < Ord(Head(b))
    ELSE StrLess(Tail(a), Tail(b))

\* (mtime, fpath) tuples of two folder entries, compared as Python compares them
EntryLess(a, b) ==
    a.mtime < b.mtime \/ (a.mtime = b.mtime /\ StrLess(a.name, b.name))

\* position of an entry in sorted(cleanable, reverse=True), counted from 0
Position(a, cleanable) == Cardinality({b \in cleanable : EntryLess(a, b)})

\* a slice that keeps every entry of the list
SortedFrom_whole(cleanable, n) == cleanable

\* cleanable[n:] of the sorted list
SortedFrom(cleanable, n) == {a \in cleanable : Position(a, cleanable) >= n}

\* a newest modification time that is never after the cutoff
NewestMtime_epoch(cleanable) == 0

\* cleanable[0][0] of the sorted list
NewestMtime(cleanable) ==
    (CHOOSE a \in cleanable : Position(a, cleanable) = 0).mtime

\* a listing that takes no entry for hidden
IsHidden_never(name) == FALSE

\* name.startswith(".")
IsHidden(name) == name # <<>> /\ Head(name) = "."

RemovedNames(k) == IF k.rem = None THEN {} ELSE Get(k.rem)

\* cleanup: the keys of prefixes
cleanup_keys(k, eps) == {NoneKey, PkgName} \cup eps \cup RemovedNames(k)

\* cleanup: prefixes[target] once the folder is listed
cleanup_bucket(k, eps, target) ==
    {a \in k.arts :
        /\ ~IsHidden(a.name)
        /\ find_prefix(cleanup_keys(k, eps), a.name) = target}

cleanup_cutoff == now - InstallTimeout

\* a pass that deletes the oldest entry of every bucket that has several
cleanup_doomed_oldest(k, eps, target) ==
    LET cleanable == cleanup_bucket(k, eps, target)
    IN  IF Cardinality(cleanable) > 1
        THEN SortedFrom(cleanable, Cardinality(cleanable) - 1)
        ELSE {}

\* cleanup: the entries of one bucket that are deleted
cleanup_doomed(k, eps, target) ==
    LET cleanable == cleanup_bucket(k, eps, target)
    IN  IF cleanable = {} THEN {}
        ELSE IF target \notin RemovedNames(k)
        THEN IF NewestMtime(cleanable) <= cleanup_cutoff
             THEN SortedFrom(cleanable, 1)
             ELSE SortedFrom(cleanable, 2)
        ELSE IF NewestMtime(cleanable) <= cleanup_cutoff
        THEN cleanable
        ELSE SortedFrom(cleanable, 1)

\* a count that finds no removed entry point reclaimed
cleanup_rem_cleaned_none(k, eps) == 0

\* cleanup: rem_cleaned
cleanup_rem_cleaned(k, eps) ==
    Cardinality({target \in cleanup_keys(k, eps) :
        /\ target \in RemovedNames(k)
        /\ LET cleanable == cleanup_bucket(k, eps, target)
           IN  cleanable = {} \/ NewestMtime(cleanable) <= cleanup_cutoff})

\* Packager.cleanup, on the package folder; eps is self.entry_points
cleanup(k, eps) ==
    LET doomed == UNION {cleanup_doomed(k, eps, t) : t \in cleanup_keys(k, eps)}
    IN  [k EXCEPT
            !.arts = IF dryrun THEN @ ELSE @ \ doomed,
            !.rem = IF cleanup_rem_cleaned(k, eps) >= Cardinality(RemovedNames(k)) /\ ~dryrun
                    THEN None ELSE @]

(* -------------------------- refresh_* ---------------------------------- *)
\* what latest_pypi_version can return: None (""), an error text, a version
CantText == "can't determine latest version"
ResolverResults == {"", CantText} \cup Versions

IndexSource == "pypi"

\* Packager.refresh_latest(force), with the resolver's answer: the record
refresh_latest_meta(m, k, forced, answer) ==
    LET loaded == load(m, k.latest)
    IN  IF ~forced /\ still_valid(loaded) THEN loaded
        ELSE LET set == set_version(loaded, answer, LatestChannel, IndexSource, LatestChannel)
             IN  IF answer # "" /\ answer # CantText THEN set
                 ELSE invalidate(set, IF answer # "" THEN answer ELSE CantText)

\* a refresh that stores whatever the resolver answered
refresh_latest_file_always(m, k, forced, answer) ==
    LET loaded == load(m, k.latest)
    IN  IF ~forced /\ still_valid(loaded) THEN k.latest
        ELSE save(set_version(loaded, answer, LatestChannel, IndexSource, LatestChannel))

\* Packager.refresh_latest(force): the stored .latest.json
refresh_latest_file(m, k, forced, answer) ==
    LET loaded == load(m, k.latest)
    IN  IF ~forced /\ still_valid(loaded) THEN k.latest
        ELSE IF answer # "" /\ answer # CantText
        THEN save(set_version(loaded, answer, LatestChannel, IndexSource, LatestChannel))
        ELSE k.latest

\* a refresh that falls back on the latest record for any channel
refresh_desired_fallback(d, l, k, forced, answer) ==
    IF cfg.pin # ""
    THEN set_version(d, cfg.pin, cfg.channel, "pinned", "")
    ELSE set_from(d, refresh_latest_meta(l, k, forced, answer), "")

\* Packager.refresh_desired(force): the desired record
refresh_desired(d, l, k, forced, answer) ==
    IF cfg.pin # ""
    THEN set_version(d, cfg.pin, cfg.channel, "pinned", "")
    ELSE IF cfg.channel = LatestChannel
    THEN set_from(d, refresh_latest_meta(l, k, forced, answer), "")
    ELSE invalidate(d, "can't determine " \o cfg.channel \o " version")

\* Packager.refresh_current
refresh_current(c, k) ==
    LET loaded == load(c, k.cur)
    IN  IF ~valid(loaded) THEN invalidate(loaded, "is not installed") ELSE loaded

(* ---------------------------------------------------------------------- *)
(* Part 3  SoftLock, the install mutex: marker <meta>/<name>/.tmp.lock     *)
(* ---------------------------------------------------------------------- *)
\* the marker exists and is newer than the validity window
SoftLock_locked(k) == k.lock # NoFile /\ now - k.lock < InstallTimeout

\* acquisition: the marker is created, an older one replaced
SoftLock_acquire(k) == [k EXCEPT !.lock = now]

\* release: the marker is deleted
SoftLock_release(k) == [k EXCEPT !.lock = NoFile]

\* Packager.required_entry_points, no entry points: runez.delete(<meta>/<name>)
delete_package_folder(k) == IF dryrun THEN k ELSE EmptyPkg

(* Competing installs of the same package, reduced to what they do to the    *)
(* marker: enter the with block, possibly find no entry points, leave.       *)
Competitor_enter(q) ==
    /\ pcS[q] = "idle"
    /\ IF SoftLock_locked(pkg)
       THEN /\ pcS' = [pcS EXCEPT ![q] = "busy"]
            /\ UNCHANGED <<pkg, sAt>>
       ELSE /\ pcS' = [pcS EXCEPT ![q] = "held"]
            /\ pkg' = SoftLock_acquire(pkg)
            /\ sAt' = [sAt EXCEPT ![q] = now]
    /\ UNCHANGED <<now, dryrun, before, passes, fileVars, pingVars, base, instVars>>

\* the holder refreshes the timestamp of the marker it wrote
Competitor_refresh(q) ==
    /\ pcS[q] = "held"
    /\ pkg.lock = sAt[q]
    /\ pkg.lock # now
    /\ pkg' = SoftLock_acquire(pkg)
    /\ sAt' = [sAt EXCEPT ![q] = now]
    /\ UNCHANGED <<now, dryrun, before, passes, fileVars, pingVars, base, pcS, instVars>>

\* required_entry_points finds none: the package folder is deleted, then abort
Competitor_no_entry_points(q) ==
    /\ pcS[q] = "held"
    /\ pkg' = delete_package_folder(pkg)
    /\ pcS' = [pcS EXCEPT ![q] = "aborting"]
    /\ UNCHANGED <<now, dryrun, before, passes, fileVars, pingVars, base, sAt, instVars>>

\* the with block is left, normally or by runez.abort
Competitor_exit(q) ==
    /\ pcS[q] \in {"held", "aborting"}
    /\ pkg' = SoftLock_release(pkg)
    /\ pcS' = [pcS EXCEPT ![q] = "done"]
    /\ UNCHANGED <<now, dryrun, before, passes, fileVars, pingVars, base, sAt, instVars>>

\* a finished process is followed by a new one
Competitor_again(q) ==
    /\ pcS[q] \in {"busy", "done"}
    /\ pcS' = [pcS EXCEPT ![q] = "idle"]
    /\ sAt' = [sAt EXCEPT ![q] = NoFile]
    /\ UNCHANGED <<now, dryrun, before, passes, fileVars, pingVars, diskVars, instVars>>

\* the process is killed inside the with block
Competitor_die(q) ==
    /\ pcS[q] \in {"held", "aborting"}
    /\ pcS' = [pcS EXCEPT ![q] = "dead"]
    /\ UNCHANGED <<now, dryrun, before, passes, fileVars, pingVars, diskVars, sAt, instVars>>

(* ---------------------------------------------------------------------- *)
(* Part 4  Packager.install (PexPackager), one installing process          *)
(* ---------------------------------------------------------------------- *)
MaxRuns == 2

\* settings a run can find: the channel, a version pinned for the package in
\* that channel ("" for none), the delivery ("" for none configured)
Settings ==
    {[channel |-> LatestChannel, pin |-> "", delivery |-> "symlink", packager |-> "pex"],
     [channel |-> LatestChannel, pin |-> "", delivery |-> "wrap", packager |-> "pex"],
     [channel |-> LatestChannel, pin |-> "", delivery |-> "", packager |-> "pex"],
     [channel |-> "stable", pin |-> "", delivery |-> "symlink", packager |-> "pex"],
     [channel |-> "stable", pin |-> "1", delivery |-> "symlink", packager |-> "pex"]}

\* what the build tools can do: pip wheel succeeds or not, the console_scripts
\* found in the wheel (None: no wheel or no entry_points.txt), and pex builds
\* the artifacts, fails, or reports success without leaving the file
Builds ==
    [pip : BOOLEAN,
     found : {None, Some({}), Some({PkgName}), Some(EPNames)},
     pex : {"ok", "failed", "missing"}]

\* the settings before any configuration is read
DefaultSettings ==
    [channel |-> LatestChannel, pin |-> "", delivery |-> "symlink", packager |-> "pex"]

Outcomes == {"done", "already", "aborted"}

\* a block that is left without releasing
internal_install_leave_kept(k) == k

\* leaving the with block of internal_install, by return or by runez.abort
internal_install_leave(k) == SoftLock_release(k)

\* runez.abort(...) inside the with block
abort_install(message, problem) ==
    /\ ipc' = "aborted"
    /\ diag' = [msg |-> message, name |-> PkgName, problem |-> problem]

\* a new process: Packager(name).install(force), up to the with statement
install_enter ==
    /\ ipc = "idle"
    /\ runs < MaxRuns
    /\ runs' = runs + 1
    /\ \E f \in BOOLEAN, c \in Settings :
        /\ force' = f
        /\ cfg' = c
    /\ UNCHANGED <<desired, current, latest, ent, prev, removed>>
    /\ IF SoftLock_locked(pkg)
       THEN /\ abort_install("is currently being installed by another process", "")
            /\ log' = <<"busy">>
            /\ pkg' = pkg
       ELSE /\ ipc' = "locked"
            /\ diag' = NoDiag
            /\ log' = <<"lock">>
            /\ pkg' = SoftLock_acquire(pkg)
    /\ UNCHANGED <<now, dryrun, before, passes, fileVars, pingVars, base, softVars>>

\* internal_install, lines 410-412
install_refresh_desired ==
    /\ ipc = "locked"
    /\ \E answer \in ResolverResults :
        LET l == refresh_latest_meta(latest, pkg, force, answer)
            d == refresh_desired(desired, latest, pkg, force, answer)
            fetched == cfg.pin = "" /\ cfg.channel = LatestChannel
            k == IF fetched
                 THEN [pkg EXCEPT !.latest = refresh_latest_file(latest, pkg, force, answer)]
                 ELSE pkg
        IN  /\ desired' = d
            /\ latest' = IF fetched THEN l ELSE latest
            /\ IF valid(d)
               THEN /\ ipc' = "desired"
                    /\ diag' = diag
                    /\ pkg' = k
                    /\ log' = Append(log, "refresh_desired")
               ELSE /\ abort_install("Can't install", d.problem)
                    /\ pkg' = internal_install_leave(k)
                    /\ log' = log \o <<"refresh_desired", "release">>
    /\ UNCHANGED <<now, dryrun, before, passes, fileVars, pingVars, base, softVars, cfg, runs, force,
                   current, ent, prev, removed>>

\* internal_install, lines 414-423
install_check_current ==
    /\ ipc = "desired"
    /\ LET c == refresh_current(current, pkg)
           d == [desired EXCEPT !.delivery = resolved_name_default(cfg.delivery, c.delivery)]
       IN  /\ current' = c
           /\ desired' = d
           /\ ent' = entry_points_cache(ent, pkg)
           /\ IF ~force /\ equivalent(c, d)
              THEN /\ ipc' = "already"
                   /\ prev' = prev
                   /\ pkg' = internal_install_leave(cleanup(pkg, entry_points(ent, pkg)))
                   /\ log' = log \o <<"refresh_current", "cleanup", "release">>
              ELSE /\ ipc' = "building"
                   /\ prev' = entry_points(ent, pkg)
                   /\ pkg' = pkg
                   /\ log' = Append(log, "refresh_current")
    /\ UNCHANGED <<now, dryrun, before, passes, fileVars, pingVars, base, softVars, cfg, runs, force,
                   latest, removed, diag>>

\* Packager.refresh_entry_points: the cache
refresh_entry_points_cache(cache, found) == IF dryrun THEN cache ELSE found

\* Packager.refresh_entry_points: the stored .entry-points.json
refresh_entry_points_file(k, found) == IF dryrun THEN k ELSE [k EXCEPT !.eps = found]

\* system.move of the built artifacts into <meta>/<name>
move_artifacts(k, names, version) ==
    LET moved == {ArtName(n, version) : n \in names}
    IN  IF dryrun THEN k
        ELSE [k EXCEPT !.arts = {a \in @ : a.name \notin moved}
                                \cup {[name |-> m, mtime |-> now] : m \in moved}]

\* PexPackager.effective_install up to perform_delivery: package() and the moves
install_build ==
    /\ ipc = "building"
    /\ \E b \in Builds :
        LET cache == refresh_entry_points_cache(ent, b.found)
            k == refresh_entry_points_file(pkg, b.found)
            ep == entry_points(cache, k)
        IN  IF ~b.pip
            THEN /\ abort_install("pip wheel failed", "")
                 /\ pkg' = internal_install_leave(pkg)
                 /\ ent' = ent
                 /\ log' = log \o <<"build", "release">>
            ELSE IF ep = {}
            THEN /\ abort_install("is not a CLI, it has no console_scripts entry points", "")
                 /\ pkg' = internal_install_leave(delete_package_folder(k))
                 /\ ent' = entry_points_cache(cache, k)
                 /\ log' = log \o <<"build", "delete_folder", "release">>
            ELSE IF b.pex # "ok"
            THEN /\ abort_install(IF b.pex = "failed" THEN "pex failed"
                                  ELSE "does not exist, can't move", "")
                 /\ pkg' = internal_install_leave(k)
                 /\ ent' = entry_points_cache(cache, k)
                 /\ log' = log \o <<"build", "release">>
            ELSE /\ ipc' = "built"
                 /\ diag' = diag
                 /\ pkg' = move_artifacts(k, ep, desired.version)
                 /\ ent' = entry_points_cache(cache, k)
                 /\ log' = Append(log, "build")
    /\ UNCHANGED <<now, dryrun, before, passes, fileVars, pingVars, base, softVars, cfg, runs, force,
                   desired, current, latest, prev, removed>>

\* a delivery that installs nothing
deliver_nothing(b, done, version, via) == b

\* deliverer.install(target, path) for the names in done
deliver(b, done, version, via) ==
    [n \in EPNames |->
        IF n \in done THEN [src |-> ArtName(n, version), via |-> via] ELSE b[n]]

\* Packager.perform_delivery
install_deliver ==
    /\ ipc = "built"
    /\ LET via == resolved_name_default(cfg.delivery, desired.delivery)
           ep == entry_points(ent, pkg)
           k == IF dryrun THEN pkg ELSE [pkg EXCEPT !.ping = now]
       IN  IF via = ""
           THEN /\ abort_install("No delivery type configured", "")
                /\ pkg' = internal_install_leave(k)
                /\ base' = base
                /\ log' = log \o <<"deliver", "release">>
           ELSE \E done \in SUBSET ep :
                /\ base' = deliver(base, done, desired.version, via)
                /\ IF done = ep
                   THEN /\ ipc' = "delivered"
                        /\ diag' = diag
                        /\ pkg' = k
                        /\ log' = Append(log, "deliver")
                   ELSE /\ abort_install("delivery failed", "")
                        /\ pkg' = internal_install_leave(k)
                        /\ log' = log \o <<"deliver", "release">>
    /\ UNCHANGED <<now, dryrun, before, passes, fileVars, pingVars, softVars, cfg, runs, force,
                   desired, current, latest, ent, prev, removed>>

\* runez.delete(system.SETTINGS.base.full_path(name)) for the names in gone
delete_targets(b, gone) ==
    [n \in EPNames |-> IF n \in gone /\ ~dryrun THEN NoTarget ELSE b[n]]

\* internal_install, lines 426-435
install_record_removed ==
    /\ ipc = "delivered"
    /\ LET new_entry_points == entry_points(ent, pkg)
           dropped == prev \ new_entry_points
           all == IF dropped # {} THEN dropped \cup RemovedNames(pkg) ELSE dropped
       IN  /\ removed' = all
           /\ pkg' = IF dropped # {} /\ ~dryrun THEN [pkg EXCEPT !.rem = Some(all)] ELSE pkg
           /\ base' = delete_targets(base, all)
    /\ ipc' = "recorded"
    /\ log' = Append(log, "record_removed")
    /\ UNCHANGED <<now, dryrun, before, passes, fileVars, pingVars, softVars, cfg, runs, force,
                   desired, current, latest, ent, prev, diag>>

\* internal_install, line 437
install_cleanup ==
    /\ ipc = "recorded"
    /\ pkg' = cleanup(pkg, entry_points(ent, pkg))
    /\ ipc' = "cleaned"
    /\ log' = Append(log, "cleanup")
    /\ UNCHANGED <<now, dryrun, before, passes, fileVars, pingVars, base, softVars, cfg, runs, force,
                   desired, current, latest, ent, prev, removed, diag>>

\* internal_install, lines 439-443, and the end of the with block
install_save_current ==
    /\ ipc = "cleaned"
    /\ LET c == set_from(current, desired, "current")
       IN  /\ current' = c
           /\ pkg' = internal_install_leave(
                        IF dryrun THEN pkg ELSE [pkg EXCEPT !.cur = save(c)])
    /\ ipc' = "done"
    /\ log' = log \o <<"save_current", "release">>
    /\ UNCHANGED <<now, dryrun, before, passes, fileVars, pingVars, base, softVars, cfg, runs, force,
                   desired, latest, ent, prev, removed, diag>>

InLock == {"locked", "desired", "building", "built", "delivered", "recorded", "cleaned"}

\* what a process has in memory when it starts
Forgotten ==
    /\ desired' = NewMeta /\ current' = NewMeta /\ latest' = NewMeta
    /\ ent' = None /\ prev' = {} /\ removed' = {}
    /\ log' = <<>>
    /\ diag' = NoDiag
    /\ cfg' = DefaultSettings
    /\ force' = FALSE

\* the installing process is killed inside the with block, during the build,
\* the one step that lasts: what it wrote stays
install_crash ==
    /\ ipc = "building"
    /\ ipc' = "idle"
    /\ Forgotten
    /\ UNCHANGED <<now, dryrun, before, passes, fileVars, pingVars, diskVars, softVars, runs>>

\* the process ends after install() returned or aborted
install_exit ==
    /\ ipc \in Outcomes
    /\ ipc' = "idle"
    /\ Forgotten
    /\ UNCHANGED <<now, dryrun, before, passes, fileVars, pingVars, diskVars, softVars, runs>>

(* ---------------------------------------------------------------------- *)
(* Part 5  Packager.cleanup on any storage folder                          *)
(* ---------------------------------------------------------------------- *)
\* file names a storage folder can hold: installs of the package and of its
\* entry point, two entries no name is a prefix of, and a hidden one
FolderNames ==
    {<<"t", "-", "1">>, <<"t", "-", "2">>,
     <<"t", "x", "-", "1">>, <<"t", "x", "-", "2">>,
     <<"o", "-", "1">>, <<"o", "-", "2">>,
     <<".", "o">>}

MaxEntries == 3

\* the storage folders with at most MaxEntries entries, none newer than t:
\* each file name with its modification time, 0 for a name that is not there
Folders(t) ==
    {f \in [FolderNames -> 0..t] :
        Cardinality({n \in FolderNames : f[n] # 0}) <= MaxEntries}

\* the folder entries as records
Entries(f) == {[name |-> n, mtime |-> f[n]] : n \in {m \in FolderNames : f[m] # 0}}

\* the .entry-points.json and .removed-entry-points.json a folder can hold
StoredEntryPoints == {None, Some({PkgName}), Some(EPNames)}
StoredRemoved == {None} \cup {Some(S) : S \in (SUBSET EPNames) \ {{}}}

\* Packager(name).cleanup() in a new process
cleanup_pass ==
    /\ passes \in {"none", "first"}
    /\ ipc = "idle"
    /\ before' = IF before = None THEN Some(pkg) ELSE before
    /\ passes' = IF passes = "none" THEN "first" ELSE "second"
    /\ pkg' = cleanup(pkg, entry_points(ent, pkg))
    /\ ent' = entry_points_cache(ent, pkg)
    /\ UNCHANGED <<now, dryrun, fileVars, pingVars, base, softVars, cfg, ipc, runs, force,
                   desired, current, latest, prev, removed, log, diag>>

(* ---------------------------------------------------------------------- *)
(* Part 6  VersionMeta objects on their own                                *)
(* ---------------------------------------------------------------------- *)
\* the records two VersionMeta objects can hold once their fields were set,
\* loaded or invalidated; t is the latest timestamp
Problems == {"", "some problem"}

MetaRecords(t) ==
    [version : {""} \cup Versions,
     channel : {"", LatestChannel},
     source : {"", IndexSource},
     packager : {"", "pex"},
     delivery : {"", "symlink"},
     python : {TargetPython},
     pickley : {PickleyVersion},
     timestamp : 0..t,
     problem : Problems]

\* the records compared with them: version, packager and channel vary
OtherRecords ==
    {[NewMeta EXCEPT !.version = v, !.packager = p, !.channel = c] :
        v \in {""} \cup Versions, p \in {"", "pex"}, c \in {"", LatestChannel}}

\* current.equivalent(other), other the desired record or None
meta_equivalent ==
    /\ log = <<>>
    /\ \E other \in {None, Some(desired)} :
          log' = <<"equivalent",
                   IF other = None THEN "None" ELSE "record",
                   IF equivalent_or_none(current, other) THEN "True" ELSE "False">>
    /\ UNCHANGED <<now, dryrun, before, passes, fileVars, pingVars, diskVars, softVars, cfg, ipc, runs,
                   force, desired, current, latest, ent, prev, removed, diag>>

\* desired.valid
meta_valid ==
    /\ log = <<>>
    /\ log' = <<"valid", IF valid(desired) THEN "True" ELSE "False">>
    /\ UNCHANGED <<now, dryrun, before, passes, fileVars, pingVars, diskVars, softVars, cfg, ipc, runs,
                   force, desired, current, latest, ent, prev, removed, diag>>

\* desired.invalidate(problem); latest keeps the record as it was before the
\* call
meta_invalidate ==
    /\ log = <<>>
    /\ \E problem \in Problems :
          /\ desired' = invalidate(desired, problem)
          /\ log' = <<"invalidate", problem>>
    /\ latest' = desired
    /\ UNCHANGED <<now, dryrun, before, passes, fileVars, pingVars, diskVars, softVars, cfg, ipc, runs,
                   force, current, ent, prev, removed, diag>>

\* desired.still_valid
meta_still_valid ==
    /\ log = <<>>
    /\ log' = <<"still_valid", IF still_valid(desired) THEN "True" ELSE "False">>
    /\ UNCHANGED <<now, dryrun, before, passes, fileVars, pingVars, diskVars, softVars, cfg, ipc, runs,
                   force, desired, current, latest, ent, prev, removed, diag>>

(* ---------------------------------------------------------------------- *)
(* Part 7  refresh_latest and refresh_desired, called again and again on   *)
(* one Packager object                                                     *)
(* ---------------------------------------------------------------------- *)
\* refresh_latest(force): is latest_pypi_version called
refresh_latest_consults(m, k, forced) ==
    forced \/ ~still_valid(load(m, k.latest))

\* what a refresh_latest(force) call leaves in the log
refresh_latest_log(m, k, forced, answer) ==
    IF refresh_latest_consults(m, k, forced)
    THEN <<"refresh_latest", "resolver", answer>>
    ELSE <<"refresh_latest">>

\* the configuration is edited between two calls
configure ==
    /\ log = <<>>
    /\ \E c \in Settings : c # cfg /\ cfg' = c
    /\ UNCHANGED <<now, dryrun, before, passes, fileVars, pingVars, diskVars, softVars, ipc, runs, force,
                   desired, current, latest, ent, prev, removed, log, diag>>

\* p.refresh_latest(force)
packager_refresh_latest ==
    /\ log = <<>>
    /\ \E forced \in BOOLEAN, answer \in ResolverResults :
          /\ force' = forced
          /\ latest' = refresh_latest_meta(latest, pkg, forced, answer)
          /\ pkg' = [pkg EXCEPT !.latest = refresh_latest_file(latest, pkg, forced, answer)]
          /\ log' = refresh_latest_log(latest, pkg, forced, answer)
    /\ UNCHANGED <<now, dryrun, before, passes, fileVars, pingVars, base, softVars, cfg, ipc, runs,
                   desired, current, ent, prev, removed, diag>>

\* p.refresh_desired(force)
packager_refresh_desired ==
    /\ log = <<>>
    /\ \E forced \in BOOLEAN, answer \in ResolverResults :
          LET fetched == cfg.pin = "" /\ cfg.channel = LatestChannel
          IN  /\ force' = forced
              /\ desired' = refresh_desired(desired, latest, pkg, forced, answer)
              /\ latest' = IF fetched THEN refresh_latest_meta(latest, pkg, forced, answer)
                           ELSE latest
              /\ pkg' = IF fetched
                        THEN [pkg EXCEPT !.latest =
                                  refresh_latest_file(latest, pkg, forced, answer)]
                        ELSE pkg
              /\ log' = <<"refresh_desired">> \o
                            (IF fetched THEN refresh_latest_log(latest, pkg, forced, answer)
                             ELSE <<>>)
    /\ UNCHANGED <<now, dryrun, before, passes, fileVars, pingVars, base, softVars, cfg, ipc, runs,
                   current, ent, prev, removed, diag>>

\* the call has returned
packager_returned ==
    /\ log # <<>>
    /\ log' = <<>>
    /\ UNCHANGED <<now, dryrun, before, passes, fileVars, pingVars, diskVars, softVars, cfg, ipc, runs,
                   force, desired, current, latest, ent, prev, removed, diag>>

(* ---------------------------------------------------------------------- *)
(* Part 8  system.* filesystem helpers on a file path                      *)
(* ---------------------------------------------------------------------- *)
\* a path with nothing at it
NoPath == [exists |-> FALSE, content |-> "", mtime |-> NoFile, exec |-> FALSE]

\* a file: its content is "old", "new", or "" while it is empty or cut short
FileAt(c, t, x) == [exists |-> TRUE, content |-> c, mtime |-> t, exec |-> x]

\* no folder, no source, no target
NoFiles == [folder |-> FALSE, source |-> NoPath, target |-> NoPath]

NoCall == [op |-> "none", pc |-> "idle", contents |-> "", samefs |-> TRUE]

NoHelperCall == fs = NoFiles /\ call = NoCall /\ seen = "none" /\ pre = NoFiles

Helpers == {"touch", "ensure_folder", "copy_file", "move_file", "delete_file",
            "make_executable", "write_contents"}

\* the filesystems a helper can be called on: the target's folder may be
\* missing, the target holds a complete earlier file or nothing, the source
\* holds the complete new file or nothing
StartSources == {NoPath} \cup {FileAt("new", 1, x) : x \in BOOLEAN}

StartTargets == {NoPath} \cup {FileAt("old", 1, x) : x \in BOOLEAN}

StartFiles ==
    {f \in [folder : BOOLEAN, source : StartSources, target : StartTargets] :
        f.target.exists => f.folder}

\* system.ensure_folder(path): the parent folder of the target
system_ensure_folder(f) ==
    IF f.folder THEN f
    ELSE IF dryrun THEN f
    ELSE [f EXCEPT !.folder = TRUE]

\* system.delete_file(path)
system_delete_file(f) ==
    IF ~f.target.exists THEN f
    ELSE IF dryrun THEN f
    ELSE [f EXCEPT !.target = NoPath]

\* system.touch(path): ensure_folder, open(path, "at"), os.utime
system_touch(f) ==
    IF dryrun THEN f
    ELSE LET g == system_ensure_folder(f)
         IN  [g EXCEPT !.target = IF @.exists THEN [@ EXCEPT !.mtime = now]
                                  ELSE FileAt("", now, FALSE)]

\* system.is_executable(path)
system_is_executable(f) == f.target.exists /\ f.target.exec

\* system.make_executable(path): the filesystem after the call
system_make_executable(f) ==
    IF system_is_executable(f) THEN f
    ELSE IF dryrun THEN f
    ELSE IF ~f.target.exists THEN f
    ELSE [f EXCEPT !.target.exec = TRUE]

\* open(path, "wt") or "wb": creates the file, or cuts an existing one to nothing
open_for_writing(f) ==
    [f EXCEPT !.target = IF @.exists THEN [@ EXCEPT !.content = "", !.mtime = now]
                         ELSE FileAt("", now, FALSE)]

\* a helper is called on the target path
call_helper ==
    /\ call.pc = "idle"
    /\ \E op \in Helpers :
       \E c \in IF op = "write_contents" THEN {"", "new"} ELSE {"new"} :
       \E s \in IF op = "move_file" THEN BOOLEAN ELSE {TRUE} :
          call' = [op |-> op, pc |-> "called", contents |-> c, samefs |-> s]
    /\ pre' = fs
    /\ UNCHANGED <<now, dryrun, before, passes, fs, seen, pingVars, diskVars, softVars, instVars>>

\* another process looks at the target path while the helper runs or once
\* it is over
reader_read ==
    /\ call.pc # "idle"
    /\ seen' = IF fs.folder /\ fs.target.exists THEN fs.target.content ELSE "absent"
    /\ seen' # seen
    /\ UNCHANGED <<now, dryrun, before, passes, fs, call, pre, pingVars, diskVars, softVars, instVars>>

\* system.touch(path)
touch_run ==
    /\ call.op = "touch" /\ call.pc = "called"
    /\ fs' = system_touch(fs)
    /\ call' = [call EXCEPT !.pc = "returned"]
    /\ UNCHANGED <<now, dryrun, before, passes, seen, pre, pingVars, diskVars, softVars, instVars>>

\* system.ensure_folder(path)
ensure_folder_run ==
    /\ call.op = "ensure_folder" /\ call.pc = "called"
    /\ fs' = system_ensure_folder(fs)
    /\ call' = [call EXCEPT !.pc = "returned"]
    /\ UNCHANGED <<now, dryrun, before, passes, seen, pre, pingVars, diskVars, softVars, instVars>>

\* system.delete_file(path)
delete_file_run ==
    /\ call.op = "delete_file" /\ call.pc = "called"
    /\ fs' = system_delete_file(fs)
    /\ call' = [call EXCEPT !.pc = "returned"]
    /\ UNCHANGED <<now, dryrun, before, passes, seen, pre, pingVars, diskVars, softVars, instVars>>

\* system.make_executable(path); cls.abort when the path does not exist
make_executable_run ==
    /\ call.op = "make_executable" /\ call.pc = "called"
    /\ fs' = system_make_executable(fs)
    /\ call' = [call EXCEPT !.pc =
                   IF ~system_is_executable(fs) /\ ~dryrun /\ ~fs.target.exists
                   THEN "aborted" ELSE "returned"]
    /\ UNCHANGED <<now, dryrun, before, passes, seen, pre, pingVars, diskVars, softVars, instVars>>

\* copy_file: the dry-run return, the abort on a missing source,
\* cls.ensure_folder(destination)
copy_file_start ==
    /\ call.op = "copy_file" /\ call.pc = "called"
    /\ IF dryrun
       THEN /\ call' = [call EXCEPT !.pc = "returned"]
            /\ fs' = fs
       ELSE IF ~fs.source.exists
       THEN /\ call' = [call EXCEPT !.pc = "aborted"]
            /\ fs' = fs
       ELSE /\ call' = [call EXCEPT !.pc = "ensured"]
            /\ fs' = system_ensure_folder(fs)
    /\ UNCHANGED <<now, dryrun, before, passes, seen, pre, pingVars, diskVars, softVars, instVars>>

\* copy_file: cls.delete_file(destination)
copy_file_delete ==
    /\ call.op = "copy_file" /\ call.pc = "ensured"
    /\ fs' = system_delete_file(fs)
    /\ call' = [call EXCEPT !.pc = "deleted"]
    /\ UNCHANGED <<now, dryrun, before, passes, seen, pre, pingVars, diskVars, softVars, instVars>>

\* shutil.copy(source, destination): the destination is opened for writing
copy_file_open ==
    /\ call.op = "copy_file" /\ call.pc = "deleted"
    /\ fs' = open_for_writing(fs)
    /\ call' = [call EXCEPT !.pc = "opened"]
    /\ UNCHANGED <<now, dryrun, before, passes, seen, pre, pingVars, diskVars, softVars, instVars>>

\* shutil.copy(source, destination): the content is written, the mode copied
copy_file_write ==
    /\ call.op = "copy_file" /\ call.pc = "opened"
    /\ fs' = [fs EXCEPT !.target.content = fs.source.content,
                        !.target.exec = fs.source.exec]
    /\ call' = [call EXCEPT !.pc = "written"]
    /\ UNCHANGED <<now, dryrun, before, passes, seen, pre, pingVars, diskVars, softVars, instVars>>

\* shutil.copystat(source, destination)
copy_file_copystat ==
    /\ call.op = "copy_file" /\ call.pc = "written"
    /\ fs' = [fs EXCEPT !.target.mtime = fs.source.mtime,
                        !.target.exec = fs.source.exec]
    /\ call' = [call EXCEPT !.pc = "returned"]
    /\ UNCHANGED <<now, dryrun, before, passes, seen, pre, pingVars, diskVars, softVars, instVars>>

\* move_file: the dry-run return, the abort on a missing source,
\* cls.ensure_folder(destination)
move_file_start ==
    /\ call.op = "move_file" /\ call.pc = "called"
    /\ IF dryrun
       THEN /\ call' = [call EXCEPT !.pc = "returned"]
            /\ fs' = fs
       ELSE IF ~fs.source.exists
       THEN /\ call' = [call EXCEPT !.pc = "aborted"]
            /\ fs' = fs
       ELSE /\ call' = [call EXCEPT !.pc = "ensured"]
            /\ fs' = system_ensure_folder(fs)
    /\ UNCHANGED <<now, dryrun, before, passes, seen, pre, pingVars, diskVars, softVars, instVars>>

\* move_file: cls.delete_file(destination)
move_file_delete ==
    /\ call.op = "move_file" /\ call.pc = "ensured"
    /\ fs' = system_delete_file(fs)
    /\ call' = [call EXCEPT !.pc = "deleted"]
    /\ UNCHANGED <<now, dryrun, before, passes, seen, pre, pingVars, diskVars, softVars, instVars>>

\* shutil.move(source, destination) inside one filesystem: os.rename
move_file_rename ==
    /\ call.op = "move_file" /\ call.pc = "deleted" /\ call.samefs
    /\ fs' = [fs EXCEPT !.target = fs.source, !.source = NoPath]
    /\ call' = [call EXCEPT !.pc = "returned"]
    /\ UNCHANGED <<now, dryrun, before, passes, seen, pre, pingVars, diskVars, softVars, instVars>>

\* shutil.move across filesystems: copy2 opens the destination
move_file_copy_open ==
    /\ call.op = "move_file" /\ call.pc = "deleted" /\ ~call.samefs
    /\ fs' = open_for_writing(fs)
    /\ call' = [call EXCEPT !.pc = "opened"]
    /\ UNCHANGED <<now, dryrun, before, passes, seen, pre, pingVars, diskVars, softVars, instVars>>

\* shutil.move across filesystems: copy2 writes the content and the stat
move_file_copy_write ==
    /\ call.op = "move_file" /\ call.pc = "opened"
    /\ fs' = [fs EXCEPT !.target = fs.source]
    /\ call' = [call EXCEPT !.pc = "written"]
    /\ UNCHANGED <<now, dryrun, before, passes, seen, pre, pingVars, diskVars, softVars, instVars>>

\* shutil.move across filesystems: os.unlink(source)
move_file_unlink ==
    /\ call.op = "move_file" /\ call.pc = "written"
    /\ fs' = [fs EXCEPT !.source = NoPath]
    /\ call' = [call EXCEPT !.pc = "returned"]
    /\ UNCHANGED <<now, dryrun, before, passes, seen, pre, pingVars, diskVars, softVars, instVars>>

\* write_contents: if not path or not contents: return; in dry-run a debug
\* line and no return; cls.ensure_folder(path)
write_contents_start ==
    /\ call.op = "write_contents" /\ call.pc = "called"
    /\ IF call.contents = ""
       THEN /\ call' = [call EXCEPT !.pc = "returned"]
            /\ fs' = fs
       ELSE /\ call' = [call EXCEPT !.pc = "ensured"]
            /\ fs' = system_ensure_folder(fs)
    /\ UNCHANGED <<now, dryrun, before, passes, seen, pre, pingVars, diskVars, softVars, instVars>>

\* write_contents: open(path, "wt"), which raises when the folder is missing
write_contents_open ==
    /\ call.op = "write_contents" /\ call.pc = "ensured"
    /\ IF ~fs.folder
       THEN /\ call' = [call EXCEPT !.pc = "raised"]
            /\ fs' = fs
       ELSE /\ call' = [call EXCEPT !.pc = "opened"]
            /\ fs' = open_for_writing(fs)
    /\ UNCHANGED <<now, dryrun, before, passes, seen, pre, pingVars, diskVars, softVars, instVars>>

\* write_contents: fh.write(contents) and the close of the file
write_contents_write ==
    /\ call.op = "write_contents" /\ call.pc = "opened"
    /\ fs' = [fs EXCEPT !.target.content = call.contents]
    /\ call' = [call EXCEPT !.pc = "returned"]
    /\ UNCHANGED <<now, dryrun, before, passes, seen, pre, pingVars, diskVars, softVars, instVars>>

(* ---------------------------------------------------------------------- *)
(* Specifications                                                          *)
(* ---------------------------------------------------------------------- *)
Init ==
    /\ now = 1
    /\ dryrun = FALSE
    /\ before = None
    /\ passes = "none"
    /\ NoHelperCall
    /\ work = NoFolder
    /\ pcP = [p \in Procs |-> "idle"]
    /\ att = [p \in Procs |-> "none"]
    /\ exc = [p \in Procs |-> [type |-> "none", ping_path |-> ""]]
    /\ enteredAt = [p \in Procs |-> NoFile]
    /\ pkg = EmptyPkg
    /\ base = [n \in EPNames |-> NoTarget]
    /\ pcS = [p \in Procs |-> "idle"]
    /\ sAt = [p \in Procs |-> NoFile]
    /\ cfg = DefaultSettings
    /\ ipc = "idle"
    /\ runs = 0
    /\ force = FALSE
    /\ desired = NewMeta
    /\ current = NewMeta
    /\ latest = NewMeta
    /\ ent = None
    /\ prev = {}
    /\ removed = {}
    /\ log = <<>>
    /\ diag = NoDiag

NextPing ==
    \/ \E p \in Procs : PingLock_enter_check(p)
    \/ \E p \in Procs : PingLock_enter_delete(p)
    \/ \E p \in Procs : PingLock_enter_touch(p)
    \/ \E p \in Procs : PingLock_body(p)
    \/ \E p \in Procs : PingLock_exit(p)
    \/ \E p \in Procs : PingLock_die(p)
    \/ Tick

SpecPing == Init /\ [][NextPing]_vars

NextSoft ==
    \/ \E q \in Procs : Competitor_enter(q)
    \/ \E q \in Procs : Competitor_refresh(q)
    \/ \E q \in Procs : Competitor_no_entry_points(q)
    \/ \E q \in Procs : Competitor_exit(q)
    \/ \E q \in Procs : Competitor_again(q)
    \/ \E q \in Procs : Competitor_die(q)
    \/ Tick

SpecSoft == Init /\ [][NextSoft]_vars

Next ==
    \/ install_enter
    \/ install_refresh_desired
    \/ install_check_current
    \/ install_build
    \/ install_deliver
    \/ install_record_removed
    \/ install_cleanup
    \/ install_save_current
    \/ install_crash
    \/ install_exit
    \/ Tick

Spec == Init /\ [][Next]_vars

\* any storage folder at any time, nothing else going on
InitCleanup ==
    /\ now \in 1..MaxTime
    /\ \E f \in Folders(now), e \in StoredEntryPoints, r \in StoredRemoved :
          pkg = [EmptyPkg EXCEPT !.arts = Entries(f), !.eps = e, !.rem = r]
    /\ dryrun = FALSE
    /\ before = None
    /\ passes = "none"
    /\ NoHelperCall
    /\ work = NoFolder
    /\ pcP = [p \in Procs |-> "idle"]
    /\ att = [p \in Procs |-> "none"]
    /\ exc = [p \in Procs |-> [type |-> "none", ping_path |-> ""]]
    /\ enteredAt = [p \in Procs |-> NoFile]
    /\ base = [n \in EPNames |-> NoTarget]
    /\ pcS = [p \in Procs |-> "idle"]
    /\ sAt = [p \in Procs |-> NoFile]
    /\ cfg = DefaultSettings
    /\ ipc = "idle"
    /\ runs = 0
    /\ force = FALSE
    /\ desired = NewMeta
    /\ current = NewMeta
    /\ latest = NewMeta
    /\ ent = None
    /\ prev = {}
    /\ removed = {}
    /\ log = <<>>
    /\ diag = NoDiag

NextCleanup == cleanup_pass

SpecCleanup == InitCleanup /\ [][NextCleanup]_vars

\* the storage folder once version 1, with entry points t and tx, was installed
\* and version 2, with entry point t only, was installed over it within the
\* install timeout: tx is recorded as removed and its artifact is kept
UpgradedPkg ==
    [cur |-> Some([version |-> "2", channel |-> LatestChannel, source |-> IndexSource,
                   packager |-> "pex", delivery |-> "symlink",
                   python |-> TargetPython, pickley |-> PickleyVersion,
                   timestamp |-> 1, problem |-> ""]),
     latest |-> Some([version |-> "2", channel |-> LatestChannel, source |-> IndexSource,
                      packager |-> "", delivery |-> "", python |-> "",
                      pickley |-> PickleyVersion, timestamp |-> 1, problem |-> ""]),
     eps |-> Some({PkgName}),
     rem |-> Some(EPNames \ {PkgName}),
     arts |-> {[name |-> ArtName(n, "1"), mtime |-> 1] : n \in EPNames}
                  \cup {[name |-> ArtName(PkgName, "2"), mtime |-> 1]},
     lock |-> NoFile,
     ping |-> 1]

\* the base folder then: t delivered from version 2, the target of tx deleted
UpgradedBase ==
    [n \in EPNames |->
        IF n = PkgName THEN [src |-> ArtName(PkgName, "2"), via |-> "symlink"]
        ELSE NoTarget]

\* Spec reaches this state with its second install
Upgraded ==
    /\ ipc = "idle"
    /\ now = 1
    /\ pkg = UpgradedPkg
    /\ base = UpgradedBase

\* a new process on the upgraded package; the installs that made the folder
\* are the runs already counted
InitUpgraded ==
    /\ Upgraded
    /\ runs = MaxRuns - 1
    /\ dryrun = FALSE
    /\ before = None
    /\ passes = "none"
    /\ NoHelperCall
    /\ work = NoFolder
    /\ pcP = [p \in Procs |-> "idle"]
    /\ att = [p \in Procs |-> "none"]
    /\ exc = [p \in Procs |-> [type |-> "none", ping_path |-> ""]]
    /\ enteredAt = [p \in Procs |-> NoFile]
    /\ pcS = [p \in Procs |-> "idle"]
    /\ sAt = [p \in Procs |-> NoFile]
    /\ cfg = DefaultSettings
    /\ force = FALSE
    /\ desired = NewMeta
    /\ current = NewMeta
    /\ latest = NewMeta
    /\ ent = None
    /\ prev = {}
    /\ removed = {}
    /\ log = <<>>
    /\ diag = NoDiag

SpecUpgraded == InitUpgraded /\ [][Next]_vars

\* the storage folder once version 1, whose wheel declares the entry point t
\* only, was installed and version 2, whose wheel declares tx only, was
\* installed over it within the install timeout: t is recorded as removed
\* and its artifact is kept
ReaddedPkg ==
    [UpgradedPkg EXCEPT
        !.eps = Some(EPNames \ {PkgName}),
        !.rem = Some({PkgName}),
        !.arts = {[name |-> ArtName(PkgName, "1"), mtime |-> 1],
                  [name |-> ArtName(CHOOSE n \in EPNames : n # PkgName, "2"), mtime |-> 1]}]

\* the base folder then: tx delivered from version 2, the target of t deleted
ReaddedBase ==
    [n \in EPNames |->
        IF n = PkgName THEN NoTarget
        ELSE [src |-> ArtName(n, "2"), via |-> "symlink"]]

Readded ==
    /\ ipc = "idle"
    /\ now = 1
    /\ pkg = ReaddedPkg
    /\ base = ReaddedBase

\* a new process on that package; the installs that made the folder are the
\* runs already counted
InitReadded ==
    /\ Readded
    /\ runs = MaxRuns - 1
    /\ dryrun = FALSE
    /\ before = None
    /\ passes = "none"
    /\ NoHelperCall
    /\ work = NoFolder
    /\ pcP = [p \in Procs |-> "idle"]
    /\ att = [p \in Procs |-> "none"]
    /\ exc = [p \in Procs |-> [type |-> "none", ping_path |-> ""]]
    /\ enteredAt = [p \in Procs |-> NoFile]
    /\ pcS = [p \in Procs |-> "idle"]
    /\ sAt = [p \in Procs |-> NoFile]
    /\ cfg = DefaultSettings
    /\ force = FALSE
    /\ desired = NewMeta
    /\ current = NewMeta
    /\ latest = NewMeta
    /\ ent = None
    /\ prev = {}
    /\ removed = {}
    /\ log = <<>>
    /\ diag = NoDiag

SpecReadded == InitReadded /\ [][Next]_vars

\* two VersionMeta objects with any field values, at any time
InitMeta ==
    /\ now \in 1..MaxTime
    /\ desired \in MetaRecords(now)
    /\ current \in OtherRecords
    /\ dryrun = FALSE
    /\ before = None
    /\ passes = "none"
    /\ NoHelperCall
    /\ work = NoFolder
    /\ pcP = [p \in Procs |-> "idle"]
    /\ att = [p \in Procs |-> "none"]
    /\ exc = [p \in Procs |-> [type |-> "none", ping_path |-> ""]]
    /\ enteredAt = [p \in Procs |-> NoFile]
    /\ pkg = EmptyPkg
    /\ base = [n \in EPNames |-> NoTarget]
    /\ pcS = [p \in Procs |-> "idle"]
    /\ sAt = [p \in Procs |-> NoFile]
    /\ cfg = DefaultSettings
    /\ ipc = "idle"
    /\ runs = 0
    /\ force = FALSE
    /\ latest = NewMeta
    /\ ent = None
    /\ prev = {}
    /\ removed = {}
    /\ log = <<>>
    /\ diag = NoDiag

NextMeta ==
    \/ meta_equivalent
    \/ meta_valid
    \/ meta_invalidate
    \/ meta_still_valid

SpecMeta == InitMeta /\ [][NextMeta]_vars

NextRefresh ==
    \/ configure
    \/ packager_refresh_latest
    \/ packager_refresh_desired
    \/ packager_returned
    \/ Tick

\* a new Packager object on a package that has no state files yet
SpecRefresh == Init /\ [][NextRefresh]_vars

\* a helper call on any starting filesystem, with or without dry-run, while
\* another process reads the target path
InitFiles ==
    /\ now \in 1..MaxTime
    /\ dryrun \in BOOLEAN
    /\ before = None
    /\ passes = "none"
    /\ fs \in StartFiles
    /\ call = NoCall
    /\ seen = "none"
    /\ pre = NoFiles
    /\ work = NoFolder
    /\ pcP = [p \in Procs |-> "idle"]
    /\ att = [p \in Procs |-> "none"]
    /\ exc = [p \in Procs |-> [type |-> "none", ping_path |-> ""]]
    /\ enteredAt = [p \in Procs |-> NoFile]
    /\ pkg = EmptyPkg
    /\ base = [n \in EPNames |-> NoTarget]
    /\ pcS = [p \in Procs |-> "idle"]
    /\ sAt = [p \in Procs |-> NoFile]
    /\ cfg = DefaultSettings
    /\ ipc = "idle"
    /\ runs = 0
    /\ force = FALSE
    /\ desired = NewMeta
    /\ current = NewMeta
    /\ latest = NewMeta
    /\ ent = None
    /\ prev = {}
    /\ removed = {}
    /\ log = <<>>
    /\ diag = NoDiag

NextFiles ==
    \/ call_helper
    \/ reader_read
    \/ touch_run
    \/ ensure_folder_run
    \/ delete_file_run
    \/ make_executable_run
    \/ copy_file_start
    \/ copy_file_delete
    \/ copy_file_open
    \/ copy_file_write
    \/ copy_file_copystat
    \/ move_file_start
    \/ move_file_delete
    \/ move_file_rename
    \/ move_file_copy_open
    \/ move_file_copy_write
    \/ move_file_unlink
    \/ write_contents_start
    \/ write_contents_open
    \/ write_contents_write

SpecFiles == InitFiles /\ [][NextFiles]_vars

(* ---------------------------------------------------------------------- *)
(* PingLock properties                                                     *)
(* ---------------------------------------------------------------------- *)
Holds(p) == pcP[p] = "held"

\* p entered and the marker it wrote would still be inside its window
HoldsFresh(p) == Holds(p) /\ now - enteredAt[p] < PingSeconds

\* C2: of the processes entering PingLock on one work folder, at most one is
\* inside the with block on an entry that is younger than the validity window
\* (also when the attempts all started while no marker existed).
C2_AtMostOneEnters ==
    \A p, q \in Procs : (p # q /\ HoldsFresh(p)) => ~HoldsFresh(q)

\* an attempt that found a marker older than the window is not refused
C3_StaleAttemptNotRefused ==
    \A p \in Procs : att[p] = "stale" => pcP[p] # "raised"

\* such an attempt discards the work folder, then leaves a marker written now
C3_StaleAttemptSteps ==
    \A p \in Procs : att[p] = "stale" =>
        /\ (pcP[p] = "clear" /\ pcP'[p] = "deleted") => work' = NoFolder
        /\ (pcP[p] = "deleted" /\ pcP'[p] = "held") =>
              (work'.exists /\ work'.ping = now')

\* C3: a marker whose age is beyond the window never blocks: the attempt that
\* finds it is not refused, its delete step discards the whole work folder, and
\* its touch step leaves the folder with a marker stamped with the current time.
C3_StaleMarkerReclaimed ==
    []C3_StaleAttemptNotRefused /\ [][C3_StaleAttemptSteps]_vars

\* C3 witness: a process that found a stale marker holds the lock on a marker
\* written now, while the process that wrote the old marker is still inside
\* its own with block.
C3_Witness ==
    \E p, q \in Procs :
        /\ p # q
        /\ att[p] = "stale" /\ pcP[p] = "held" /\ work.ping = now
        /\ pcP[q] = "held" /\ enteredAt[q] < enteredAt[p]

\* C5: __enter__ raises PingLockException, carrying the marker's path, exactly
\* when the marker exists with an age below the window; with the marker absent
\* or of age equal to or above the window the attempt is not refused.
C5_RaisesIffBelowWindow ==
    \A p \in Procs : att[p] # "none" =>
        /\ (pcP[p] = "raised") <=> (att[p] = "young")
        /\ pcP[p] = "raised" =>
              exc[p] = [type |-> "PingLockException", ping_path |-> PingPath]

\* the exit step leaves no work folder, and nothing that refuses an attempt
C6_ExitStep ==
    \A p \in Procs :
        (pcP[p] = "held" /\ pcP'[p] \in {"done", "propagated"}) =>
            (work' = NoFolder /\ ~is_young(work', PingSeconds))

\* a marker exists only while a process is inside its with block or died there
C6_MarkerHasOwner ==
    (work.exists /\ work.ping # NoFile) =>
        \E p \in Procs : pcP[p] \in {"held", "dead_held"}

\* C6: the exit step of an entered context leaves no work folder and no marker,
\* so an attempt made right after it is not refused; and a marker exists only
\* while some process is inside its with block or died there.
C6_ExitRemovesWorkFolder ==
    []C6_MarkerHasOwner /\ [][C6_ExitStep]_vars

\* C6 witness: one process left through an exception, another left normally,
\* and nothing of the work folder remains.
C6_Witness ==
    \E p, q \in Procs :
        /\ pcP[p] = "propagated" /\ pcP[q] = "done"
        /\ work = NoFolder


(* ---------------------------------------------------------------------- *)
(* SoftLock properties                                                     *)
(* ---------------------------------------------------------------------- *)
\* q is inside the with block on an acquisition younger than the window
SoftHoldsFresh(q) ==
    pcS[q] \in {"held", "aborting"} /\ now - sAt[q] < InstallTimeout

\* C1: of the processes acquiring the install mutex of one package, at most one
\* is inside the with block on an acquisition younger than the validity window.
C1_AtMostOneHolder ==
    \A p, q \in Procs : (p # q /\ SoftHoldsFresh(p)) => ~SoftHoldsFresh(q)

(* ---------------------------------------------------------------------- *)
(* Install properties                                                      *)
(* ---------------------------------------------------------------------- *)
Logged(what) == \E i \in 1..Len(log) : log[i] = what

Acquired == log # <<>> /\ Head(log) = "lock"

\* same version, packager and delivery
SameInstall(a, b) ==
    a.version = b.version /\ a.packager = b.packager /\ a.delivery = b.delivery

\* C4: an install attempt that acquired the install mutex and ended (already
\* installed, installed, or aborted at any step) has left no lock marker.
C4_LockReleasedOnEveryOutcome ==
    (ipc \in Outcomes /\ Acquired) => (pkg.lock = NoFile /\ Logged("release"))

\* C4 witness: an attempt that acquired the mutex was aborted by a failed
\* delivery, and the marker is gone.
C4_Witness ==
    /\ ipc = "aborted" /\ Acquired
    /\ diag.msg = "delivery failed"
    /\ pkg.lock = NoFile


\* the run decided for the already-installed path only without force and with
\* an existing, valid current record of the desired version, packager and
\* delivery, and then did nothing but the retention pass; it decided for the
\* build only with force or a current record that differs
C7_Decision ==
    /\ ipc = "already" =>
          /\ ~force
          /\ pkg.cur # None /\ current.version # "" /\ current.problem = ""
          /\ SameInstall(current, desired)
          /\ log = <<"lock", "refresh_desired", "refresh_current", "cleanup", "release">>
    /\ ipc = "building" =>
          /\ (force \/ ~SameInstall(current, desired))
          /\ log = <<"lock", "refresh_desired", "refresh_current">>

\* the step that takes the already-installed path rewrites neither the current
\* record nor a delivered target, and leaves what a retention pass leaves
C7_AlreadyStep ==
    (ipc = "desired" /\ ipc' = "already") =>
        /\ pkg'.cur = pkg.cur
        /\ base' = base
        /\ pkg'.eps = pkg.eps
        /\ pkg'.arts = cleanup(pkg, entry_points(ent, pkg)).arts

\* C7: install takes the already-installed path if and only if force is not set
\* and the loaded current record is equivalent to desired; on that path there
\* is no build and no delivery, the current record is not rewritten and the
\* retention pass runs; with force, or without a valid current record, it builds.
C7_AlreadyInstalledPath ==
    []C7_Decision /\ [][C7_AlreadyStep]_vars

\* C7 witness: a second run found the package already installed and its
\* retention pass ran.
C7_Witness ==
    /\ ipc = "already" /\ ~force /\ runs = 2
    /\ Logged("cleanup") /\ ~Logged("build")
    /\ pkg.cur # None

\* the step that ends a successful install of a package without current record
\* stores a current record of the desired version, packager and delivery, and
\* every entry point of the build has its target delivered from that version
C8_SaveStep ==
    (ipc = "cleaned" /\ ipc' = "done" /\ pkg.cur = None) =>
        /\ pkg'.cur # None
        /\ Get(pkg'.cur).version = desired'.version
        /\ SameInstall(Get(pkg'.cur), desired')
        /\ \A n \in entry_points(ent', pkg') :
              /\ base'[n].src = ArtName(n, desired'.version)
              /\ base'[n].via = desired'.delivery

\* C8: after a successful install of a package that had no current record, the
\* stored current record has the desired version and is equivalent to desired,
\* and every entry point of the build has a delivered target at the base path.
C8_FreshInstallRecorded ==
    [][C8_SaveStep]_vars

\* C8 witness: the first install of the package succeeded with two entry points.
C8_Witness ==
    /\ ipc = "done" /\ runs = 1
    /\ entry_points(ent, pkg) = EPNames
    /\ pkg.cur # None /\ Get(pkg.cur).version = desired.version

\* once refresh_desired has run, a desired record without version or with a
\* problem means the run was aborted with the diagnostic, after the refresh and
\* the release alone
C9_Aborted ==
    (Logged("refresh_desired") /\ (desired.version = "" \/ desired.problem # "")) =>
        /\ ipc = "aborted"
        /\ desired.problem # ""
        /\ diag = [msg |-> "Can't install", name |-> PkgName, problem |-> desired.problem]
        /\ log = <<"lock", "refresh_desired", "release">>

\* the step that aborts on an invalid desired record changes nothing of the
\* package but the lock marker, and no delivered target
C9_AbortStep ==
    (ipc = "locked" /\ ipc' = "aborted") =>
        /\ pkg' = [pkg EXCEPT !.lock = NoFile]
        /\ base' = base

\* C9: when refresh_desired yields an invalid desired record, install aborts
\* with a diagnostic naming the package and the record's problem, and performs
\* no build, no delivery, no retention pass and no write of the current record.
C9_InvalidDesiredAborts ==
    []C9_Aborted /\ [][C9_AbortStep]_vars

\* C9 witness: a run was aborted because the channel has no version.
C9_Witness ==
    /\ ipc = "aborted"
    /\ diag.msg = "Can't install"
    /\ diag.problem = "can't determine stable version"
    /\ runs = 2 /\ pkg.cur # None

\* C10: a failing build step (pip or pex failing, no entry points found, an
\* artifact missing) leaves the stored current record and every delivered
\* target as they were.
C10_BuildFailureKeepsState ==
    [][(ipc = "building" /\ ipc' = "aborted") =>
          (pkg'.cur = pkg.cur /\ base' = base)]_vars


\* C11: an install attempt that fails in its build step leaves the stored
\* entry-point set, the removed-entry-points record and the artifacts of the
\* storage folder as they were before the attempt.
C11_FailedBuildCommitsNothing ==
    [][(ipc = "building" /\ ipc' = "aborted") =>
          (pkg'.eps = pkg.eps /\ pkg'.rem = pkg.rem /\ pkg'.arts = pkg.arts)]_vars


(* ---------------------------------------------------------------------- *)
(* Retention properties (a pass found the folder Found, left pkg)          *)
(* ---------------------------------------------------------------------- *)
Swept == before # None

Found == Get(before)

\* the names a pass registers: the package, its entry points, the removed ones
FoundEntryPoints == IF Found.eps = None THEN {} ELSE Get(Found.eps)

FoundRemoved == IF Found.rem = None THEN {} ELSE Get(Found.rem)

Registered == {PkgName} \cup FoundEntryPoints \cup FoundRemoved

\* the bucket of a registered name: the non-hidden entries it is the longest
\* registered prefix of
Bucket(n) ==
    {a \in Found.arts :
        /\ Head(a.name) # "."
        /\ IsPrefix(n, a.name)
        /\ \A m \in Registered : IsPrefix(m, a.name) => Len(m) <= Len(n)}

Kept(n) == Bucket(n) \cap pkg.arts

Cutoff == now - InstallTimeout

NewestOlder(n) == \A a \in Bucket(n) : a.mtime < Cutoff

NewestYounger(n) == \E a \in Bucket(n) : a.mtime > Cutoff

\* what was kept is at least as new as what was deleted
KeptNewest(n) ==
    \A k \in Kept(n), d \in Bucket(n) \ Kept(n) : k.mtime >= d.mtime

Min(a, b) == IF a <= b THEN a ELSE b

C13_RemovedBucketRetention ==
    Swept => \A n \in FoundRemoved :
        Bucket(n) # {} =>
            /\ KeptNewest(n)
            /\ NewestOlder(n) => Kept(n) = {}
            /\ NewestYounger(n) => Cardinality(Kept(n)) = 1

\* C13 witness: a pass over two young installs of a removed entry point kept
\* one of them.
C13_Witness ==
    /\ Swept
    /\ \E n \in FoundRemoved :
          /\ Cardinality(Bucket(n)) = 2 /\ NewestYounger(n)
          /\ Cardinality(Kept(n)) = 1


\* C14: a pass deletes the removed-entry-points record exactly when nothing is
\* left of the bucket of any name in it; otherwise the record stays as it was.
C14_RecordDroppedWhenAllReclaimed ==
    (Swept /\ Found.rem # None) =>
        /\ (pkg.rem = None) <=> (\A n \in FoundRemoved : Kept(n) = {})
        /\ pkg.rem # None => pkg.rem = Found.rem

\* C14 witness: of two removed names one was reclaimed by the pass, the other
\* was not, and the record is unchanged.
C14_Witness ==
    /\ Swept
    /\ FoundRemoved = EPNames
    /\ \E n \in FoundRemoved : Bucket(n) # {} /\ Kept(n) = {}
    /\ \E n \in FoundRemoved : Kept(n) # {}
    /\ pkg.rem = Found.rem


\* C15: after a pass, every bucket of the package's own name or of a current
\* entry point that held something before the pass still holds an entry,
\* whatever the removed-entry-points record names.
C15_InstalledBucketsSurvive ==
    Swept => \A n \in {PkgName} \cup FoundEntryPoints :
        Bucket(n) # {} => Kept(n) # {}


\* the non-hidden entries the pass found that no registered name prefixes
Unregistered ==
    {a \in Found.arts : Head(a.name) # "." /\ \A m \in Registered : ~IsPrefix(m, a.name)}

\* C16: a pass deletes no non-hidden entry whose file name has no registered
\* name as a prefix, however many such entries there are.
C16_UnregisteredEntriesKept == Swept => Unregistered \subseteq pkg.arts


\* the hidden entries the pass found
Hidden == {a \in Found.arts : Head(a.name) = "."}

\* C17: a pass deletes no entry whose name starts with "." and counts none in
\* a bucket: what remains of the other entries is what a pass over the folder
\* without its hidden entries would have left.
C17_HiddenEntriesUntouched ==
    Swept =>
        /\ Hidden \subseteq pkg.arts
        /\ pkg.arts \ Hidden =
               cleanup([Found EXCEPT !.arts = @ \ Hidden], FoundEntryPoints).arts

\* C17 witness: the pass found an old hidden entry beside two installs of the
\* package, deleted one of the installs and kept the hidden entry.
C17_Witness ==
    /\ Swept
    /\ \E h \in Hidden : h.mtime < Cutoff /\ h \in pkg.arts
    /\ Cardinality(Bucket(PkgName)) = 2
    /\ Cardinality(Kept(PkgName)) = 1


(* ---------------------------------------------------------------------- *)
(* Removed entry points across installs                                    *)
(* ---------------------------------------------------------------------- *)
\* the entry points the install in progress found before and no longer finds
Dropped == prev \ entry_points(ent, pkg)

\* the stored artifacts of a removed entry point
RemovedBucket(n) == cleanup_bucket(pkg, entry_points(ent, pkg), n)

\* C18: an upgrade that ends with entry points dropped leaves them in the
\* removed-entry-points record, and a step takes an artifact out of the bucket
\* of a recorded name only when the newest of the bucket has reached the
\* retention cutoff.
C18_DroppedEntryPointAgedOut ==
    [][/\ (ipc # "done" /\ ipc' = "done" /\ ~dryrun /\ pkg.cur # None) =>
              Dropped' \subseteq RemovedNames(pkg')
       /\ \A n \in RemovedNames(pkg) :
              (\E a \in RemovedBucket(n) : \A x \in pkg'.arts : x.name # a.name)
                  => \A a \in RemovedBucket(n) : a.mtime <= cleanup_cutoff]_vars


\* C19: an install that drops entry points writes as removed-entry-points the
\* union of the dropped names with the names recorded before, and ends with
\* that record; an install that drops none leaves the record unwritten.
C19_RemovedRecordIsUnion ==
    [][/\ (ipc = "delivered" /\ ipc' = "recorded" /\ ~dryrun) =>
              IF Dropped # {}
              THEN pkg'.rem = Some(Dropped \cup RemovedNames(pkg))
              ELSE pkg'.rem = pkg.rem
       /\ (ipc \in {"recorded", "cleaned"} /\ removed # {} /\ ~dryrun) =>
              pkg'.rem = pkg.rem]_vars


\* C20: when an install has succeeded, no name in the removed-entry-points
\* record is an entry point of the version just installed.
C20_RemovedNamesNotCurrent ==
    (ipc = "done" /\ ~dryrun) =>
        RemovedNames(pkg) \cap entry_points(ent, pkg) = {}


(* ---------------------------------------------------------------------- *)
(* VersionMeta properties                                                  *)
(* ---------------------------------------------------------------------- *)
\* the answer the last call on the objects gave
Answered(op) == log # <<>> /\ Head(log) = op

Answer == log[Len(log)] = "True"

\* m with other values for the fields equivalence does not look at
Redated(m) ==
    {[m EXCEPT !.channel = c, !.source = s, !.timestamp = t, !.problem = p] :
        c \in {"", LatestChannel, "stable"}, s \in {"", IndexSource, "pinned"},
        t \in 0..MaxTime, p \in Problems}

\* C21: equivalent gives the same answer both ways round, the answer is that
\* version, packager and delivery all match, it does not change with the
\* channel, source, timestamp or problem of either record, and it is False
\* for None.
C21_EquivalentSymmetricOnThreeFields ==
    /\ equivalent_or_none(current, Some(desired)) = equivalent_or_none(desired, Some(current))
    /\ equivalent_or_none(current, Some(desired)) = SameInstall(current, desired)
    /\ \A a \in Redated(current) :
          equivalent_or_none(a, Some(desired)) = equivalent_or_none(current, Some(desired))
    /\ \A b \in Redated(desired) :
          equivalent_or_none(current, Some(b)) = equivalent_or_none(current, Some(desired))
    /\ ~equivalent_or_none(current, None) /\ ~equivalent_or_none(desired, None)
    /\ Answered("equivalent") =>
          Answer = (log[2] = "record" /\ SameInstall(current, desired))

\* C21 witness: two records that differ in channel, source, timestamp and
\* problem were compared and found equivalent.
C21_Witness ==
    /\ Answered("equivalent") /\ Answer
    /\ current.channel # desired.channel
    /\ current.source # desired.source
    /\ current.timestamp # desired.timestamp
    /\ current.problem # desired.problem
    /\ current.version # ""


\* C22: a record is valid exactly when its version is not empty and it has no
\* problem; after invalidate(problem) it is not valid, its version is empty
\* and its problem is the text given.
C22_ValidIffVersionAndNoProblem ==
    /\ valid(desired) <=> (desired.version # "" /\ desired.problem = "")
    /\ valid(current) <=> (current.version # "" /\ current.problem = "")
    /\ Answered("valid") => (Answer <=> (desired.version # "" /\ desired.problem = ""))
    /\ Answered("invalidate") =>
          /\ ~valid(desired)
          /\ desired.version = ""
          /\ desired.problem = log[2]

\* C22 witness: a valid record was invalidated with a problem text.
C22_Witness ==
    /\ Answered("invalidate")
    /\ latest.version # "" /\ latest.problem = ""
    /\ desired.problem = "some problem"


\* C23: still_valid is False for a record that is not valid, True for a valid
\* record without a timestamp, and for a valid record with a timestamp True
\* exactly while now - timestamp is below the version check window.
C23_StillValidWindow ==
    Answered("still_valid") =>
        IF desired.version = "" \/ desired.problem # "" THEN ~Answer
        ELSE IF desired.timestamp = 0 THEN Answer
        ELSE Answer <=> (now - desired.timestamp < VersionCheckSeconds)

\* C23 witness: a valid record whose age is exactly the window was found no
\* longer valid.
C23_Witness ==
    /\ Answered("still_valid") /\ ~Answer
    /\ desired.version # "" /\ desired.problem = ""
    /\ desired.timestamp # 0
    /\ now - desired.timestamp = VersionCheckSeconds


(* ---------------------------------------------------------------------- *)
(* Refresh properties                                                      *)
(* ---------------------------------------------------------------------- *)
In(seq, what) == \E i \in 1..Len(seq) : seq[i] = what

\* the stored .latest.json as a new object would load it
Persisted == load(NewMeta, pkg.latest)

\* C24: a refresh_latest call asks the resolver only when force is set or the
\* persisted latest record is not still valid; otherwise it asks nothing,
\* writes nothing and leaves the persisted record as the latest record.
C24_ResolverOnlyWhenStaleOrForced ==
    [][(log = <<>> /\ In(log', "refresh_latest")) =>
          /\ In(log', "resolver") => (force' \/ ~still_valid(Persisted))
          /\ (~force' /\ still_valid(Persisted)) =>
                /\ ~In(log', "resolver")
                /\ pkg'.latest = pkg.latest
                /\ latest' = Persisted]_vars


\* the answer of the resolver in a call that asked it
Resolved(seq) == seq[Len(seq)]

\* C25: a refresh_latest call that asked the resolver writes .latest.json only
\* for a concrete version, and then with that version; for no answer or an
\* error text the latest record has no version and a problem, and the file is
\* as it was.
C25_LatestSavedOnlyWhenResolved ==
    [][(log = <<>> /\ In(log', "resolver")) =>
          IF Resolved(log') \in Versions
          THEN /\ pkg'.latest # None
               /\ Get(pkg'.latest).version = Resolved(log')
               /\ Get(pkg'.latest).timestamp = now
          ELSE /\ latest'.version = ""
               /\ latest'.problem # ""
               /\ pkg'.latest = pkg.latest]_vars

\* C25 witness: the resolver answered with an error text while a latest file
\* existed; the record has the problem and the file still has its version.
C25_Witness ==
    /\ In(log, "resolver")
    /\ Resolved(log) = CantText
    /\ latest.version = "" /\ latest.problem = CantText
    /\ pkg.latest # None
    /\ Get(pkg.latest).version \in Versions


\* C26: the latest record after a refresh_latest call that asked the resolver
\* is valid exactly when the resolver answered with a concrete version,
\* whatever calls the object has been through before.
C26_ValidIffResolved ==
    [][(log = <<>> /\ In(log', "resolver")) =>
          (valid(latest') <=> Resolved(log') \in Versions)]_vars


\* C27: with a version pinned for the package, refresh_desired leaves that
\* version in a valid desired record and neither asks the resolver nor reads
\* or writes the latest record, whatever the desired record held before.
C27_PinnedVersionWins ==
    [][(log = <<>> /\ In(log', "refresh_desired") /\ cfg.pin # "") =>
          /\ desired'.version = cfg.pin
          /\ ~In(log', "resolver")
          /\ latest' = latest /\ pkg'.latest = pkg.latest
          /\ valid(desired')]_vars


\* C28: with a channel other than latest and no version configured under it,
\* refresh_desired leaves a desired record without version whose problem names
\* the channel, and neither asks the resolver nor touches the latest record.
C28_UnconfiguredChannelInvalid ==
    [][(log = <<>> /\ In(log', "refresh_desired")
            /\ cfg.pin = "" /\ cfg.channel # LatestChannel) =>
          /\ desired'.version = ""
          /\ desired'.problem = "can't determine " \o cfg.channel \o " version"
          /\ ~valid(desired')
          /\ ~In(log', "resolver")
          /\ latest' = latest /\ pkg'.latest = pkg.latest]_vars

\* C28 witness: the channel is stable with nothing pinned, a valid latest
\* record is at hand, and the call left desired with the channel's problem.
C28_Witness ==
    /\ log = <<"refresh_desired">>
    /\ cfg.channel = "stable" /\ cfg.pin = ""
    /\ latest.version \in Versions /\ latest.problem = ""
    /\ desired.version = ""
    /\ desired.problem = "can't determine stable version"


(* ---------------------------------------------------------------------- *)
(* Order of the steps of an install                                        *)
(* ---------------------------------------------------------------------- *)
\* C29: a run holds the install mutex only once desired was determined and
\* current compared with it; a run that ends as already installed, or aborts
\* because desired cannot be determined, has not acquired the mutex.
C29_MutexAfterDecision ==
    /\ (ipc \in InLock /\ Acquired) =>
          (Logged("refresh_desired") /\ Logged("refresh_current"))
    /\ ipc = "already" => ~Acquired
    /\ (ipc = "aborted" /\ diag.msg = "Can't install") => ~Acquired


\* C30: on the install path the current record is written before the
\* retention pass: the step in which cleanup deletes artifacts comes after
\* the save of the current record in the same run.
C30_CurrentSavedBeforeCleanup ==
    [][(ipc = "recorded" /\ ipc' = "cleaned" /\ pkg'.arts # pkg.arts) =>
          Logged("save_current")]_vars


(* ---------------------------------------------------------------------- *)
(* The lock marker while it is held                                        *)
(* ---------------------------------------------------------------------- *)
\* C33: a step an install takes inside its with block, short of leaving the
\* block, does not remove or replace the lock marker: the marker the holder
\* found before the step is there after it.
C33_MarkerKeptWhileHeld ==
    [][\A q \in Procs :
          (pcS[q] = "held" /\ pcS'[q] = "aborting") => pkg'.lock = pkg.lock]_vars


(* ---------------------------------------------------------------------- *)
(* Bucketing                                                               *)
(* ---------------------------------------------------------------------- *)
\* the keys of the pass and the buckets an entry was put into
FoundKeys == cleanup_keys(Found, FoundEntryPoints)

BucketsOf(a) == {t \in FoundKeys : a \in cleanup_bucket(Found, FoundEntryPoints, t)}

\* the registered names the file name starts with
PrefixesOf(a) == {n \in Registered : n # <<>> /\ IsPrefix(n, a.name)}

\* C34: a pass puts each non-hidden entry into one bucket only, that of the
\* longest registered name its file name starts with; find_prefix gives that
\* name, and None when no name is a prefix or when the text or the names are
\* empty.
C34_LongestPrefixBucket ==
    Swept =>
        LET bucket == [t \in FoundKeys |-> cleanup_bucket(Found, FoundEntryPoints, t)]
        IN  /\ \A a \in Found.arts \ Hidden :
                  LET into == {t \in FoundKeys : a \in bucket[t]}
                      target == find_prefix(FoundKeys, a.name)
                      prefixes == PrefixesOf(a)
                  IN  /\ Cardinality(into) = 1
                      /\ IF prefixes = {}
                         THEN target = NoneKey /\ into = {NoneKey}
                         ELSE /\ target \in prefixes
                              /\ \A m \in prefixes : Len(m) <= Len(target)
                              /\ into = {target}
                      /\ find_prefix({}, a.name) = NoneKey
            /\ \A a \in Hidden : \A t \in FoundKeys : a \notin bucket[t]
            /\ find_prefix(FoundKeys, <<>>) = NoneKey

\* C34 witness: the package name and its entry point are both prefixes of an
\* entry, and the pass put it under the entry point, the longer of the two.
C34_Witness ==
    /\ Swept
    /\ \E a \in Found.arts :
          /\ PrefixesOf(a) = EPNames
          /\ BucketsOf(a) = EPNames \ {PkgName}


(* ---------------------------------------------------------------------- *)
(* PingLock: reclaiming and failing                                        *)
(* ---------------------------------------------------------------------- *)
\* q reclaimed a stale marker and is inside its block on the marker it wrote
Reclaimed(q) ==
    /\ pcP[q] = "held"
    /\ att[q] = "stale"
    /\ work.exists /\ work.ping = enteredAt[q]

\* C35: when a process has reclaimed the stale marker of a holder that is
\* still in its block, the exit of that first holder leaves the marker of
\* the second in place.
C35_LateExitKeepsReclaimedMarker ==
    [][\A p, q \in Procs :
          (/\ p # q
           /\ pcP[p] = "held" /\ pcP'[p] \in {"done", "propagated"}
           /\ enteredAt[p] < enteredAt[q]
           /\ Reclaimed(q))
              => work'.ping = work.ping]_vars


\* C36: an acquisition that fails with PingLockException leaves the work
\* folder, its contents and the marker's modification time as they were,
\* and the failed process takes no further step: no body, no exit-time
\* deletion.
C36_FailedAcquisitionChangesNothing ==
    [][\A p \in Procs :
          /\ (pcP[p] # "raised" /\ pcP'[p] = "raised")
                => /\ pcP[p] = "idle"
                   /\ work' = work
                   /\ exc'[p].type = "PingLockException"
          /\ pcP[p] = "raised" => pcP'[p] = "raised"]_vars

C36_Witness ==
    \E p, q \in Procs :
        /\ p # q
        /\ pcP[p] = "raised" /\ exc[p].type = "PingLockException"
        /\ pcP[q] = "held"
        /\ work.exists /\ work.other
        /\ work.ping = enteredAt[q] /\ work.ping < now


(* ---------------------------------------------------------------------- *)
(* Repeated retention passes                                               *)
(* ---------------------------------------------------------------------- *)
\* C39: a retention pass that runs right after another one, with the same
\* folder, entry points and clock, deletes no entry and leaves the
\* removed-entry-points record as the first pass left it.
C39_SecondPassChangesNothing ==
    [][(passes = "first" /\ passes' = "second" /\ now' = now)
          => (pkg'.arts = pkg.arts /\ pkg'.rem = pkg.rem)]_vars

\* two passes ran; the first one deleted entries, kept others and kept the record
C39_Witness ==
    /\ passes = "second"
    /\ Found.arts # pkg.arts
    /\ \E a, b \in pkg.arts : a # b /\ ~IsHidden(a.name) /\ ~IsHidden(b.name)
    /\ pkg.rem # None

(* ---------------------------------------------------------------------- *)
(* Filesystem helpers: what a reader sees, what dry-run changes            *)
(* ---------------------------------------------------------------------- *)
\* the helper replaces a complete earlier file at the target path
Replacing(ops) ==
    /\ call.op \in ops
    /\ pre.target.exists /\ pre.target.content = "old"
    /\ seen # "none"

\* C31: while copy_file or move_file puts a source onto an existing target,
\* a reader of the target path finds the complete earlier content or the
\* complete new content, never a missing or partly written target.
C31_TargetReplacedAllOrNothing ==
    (Replacing({"copy_file", "move_file"}) /\ pre.source.exists)
        => seen \in {pre.target.content, pre.source.content}

C40_DryRunChangesNothing ==
    (dryrun /\ call.pc = "returned") => fs = pre


(* ---------------------------------------------------------------------- *)
(* Delivered targets after an install                                      *)
(* ---------------------------------------------------------------------- *)
\* C37: once an install has succeeded, every entry point of the installed
\* version has its delivered target at the base path, whatever entry points
\* earlier versions dropped or brought back.
C37_DeliveredTargetsStay ==
    (ipc = "done" /\ ~dryrun)
        => \A n \in entry_points(ent, pkg) : base[n] # NoTarget


(* ---------------------------------------------------------------------- *)
(* Convergence of install                                                  *)
(* ---------------------------------------------------------------------- *)
\* the stored current record is the one an install with these settings and
\* this desired version leaves
Converged ==
    /\ pkg.cur # None
    /\ Get(pkg.cur).version = desired.version
    /\ Get(pkg.cur).packager = resolved_name(cfg.packager)
    /\ Get(pkg.cur).delivery = resolved_name(cfg.delivery)

\* C38: an un-forced install that follows a successful one with the same
\* settings and resolves the same version finds the stored current record
\* equivalent to desired and takes the already-installed path: no build, no
\* delivery, the current record and the delivered targets stay as they are.
C38_InstallConverges ==
    [][(ipc = "desired" /\ ipc' # "desired" /\ ~force /\ Converged)
          => /\ ipc' = "already"
             /\ equivalent(current', desired')
             /\ ~Logged("build")' /\ ~Logged("deliver")'
             /\ base' = base
             /\ pkg'.cur = pkg.cur]_vars

\* a second run with the settings of the first (a wrapper delivery), at a
\* later time, found the package already installed
C38_Witness ==
    /\ ipc = "already" /\ ~force /\ runs = 2
    /\ cfg.delivery = "wrap"
    /\ Converged
    /\ Get(pkg.cur).timestamp < now
    /\ ~Logged("build")

====
